---- MODULE Spec2Model ----
(***************************************************************************)
(* A model of src/main.py: the HTTP fetcher (make_request), the row        *)
(* enricher (scrape_book_data), the pipeline orchestrator (scrape_gr_data) *)
(* with its worker pool and write fallback chain, and the title/author     *)
(* verifier (verify_book_info, verify_title_and_author).                   *)
(*                                                                         *)
(* Text is modelled as a sequence of one-token strings.  A CSV cell is     *)
(* such a sequence; the Python values None, float and int that the         *)
(* enricher appends are sequences that start with a tag no text starts     *)
(* with, so that every cell can be compared with every other cell.         *)
(***************************************************************************)
EXTENDS Integers, Sequences, FiniteSets, Bags, TLC

(***************************************************************************)
(* Program constants.                                                      *)
(***************************************************************************)
MAX_WORKERS == 5

GR_DELAY == 1

DefaultMaxRetries == 5

(***************************************************************************)
(* Bounds of the model.                                                    *)
(***************************************************************************)
MaxRows == 2

MaxRuns == 2

MaxAttemptsArg == 6

(***************************************************************************)
(* Python values.                                                          *)
(***************************************************************************)
None == <<"#None">>

IsNone(v) == v = None

IsFloat(v) == Len(v) > 0 /\ v[1] = "#float"

IsInt(v) == Len(v) > 0 /\ v[1] = "#int"

RECURSIVE StripLeadingZeros(_)
StripLeadingZeros(s) ==
    IF Len(s) > 1 /\ s[1] = "0" THEN StripLeadingZeros(Tail(s)) ELSE s

RECURSIVE StripTrailingZeros(_)
StripTrailingZeros(s) ==
    IF Len(s) > 1 /\ s[Len(s)] = "0"
    THEN StripTrailingZeros(SubSeq(s, 1, Len(s) - 1))
    ELSE s

RECURSIVE Remove(_, _)
Remove(s, c) ==
    IF s = <<>> THEN <<>>
    ELSE IF Head(s) = c THEN Remove(Tail(s), c)
    ELSE <<Head(s)>> \o Remove(Tail(s), c)

IndexOf(s, c) == IF \E i \in 1..Len(s) : s[i] = c
                 THEN CHOOSE i \in 1..Len(s) : s[i] = c /\ \A j \in 1..(i - 1) : s[j] # c
                 ELSE 0

\* float(lit) for a literal of the shape \d+\.\d+, kept as the text of its value
PyFloat(lit) ==
    LET dot == IndexOf(lit, ".")
    IN  <<"#float">> \o StripLeadingZeros(SubSeq(lit, 1, dot - 1)) \o <<".">>
            \o StripTrailingZeros(SubSeq(lit, dot + 1, Len(lit)))

\* int(lit.replace(",", "")) for a literal of the shape \d+,?\d*
PyInt(lit) == <<"#int">> \o StripLeadingZeros(Remove(lit, ","))

(***************************************************************************)
(* str.lower and str.replace(" ", "+") on the text alphabet of the model.  *)
(***************************************************************************)
LowerChar(c) ==
    CASE c = "D" -> "d"
      [] c = "H" -> "h"
      [] c = "Correct" -> "correct"
      [] c = "CORRECT" -> "correct"
      [] c = "Dune" -> "dune"
      [] c = "Herbert" -> "herbert"
      [] OTHER -> c

Lower(s) == [i \in 1..Len(s) |-> LowerChar(s[i])]

Replace(s, old, new) == [i \in 1..Len(s) |-> IF s[i] = old THEN new ELSE s[i]]

(***************************************************************************)
(* The input rows the model draws from: a blank line (no field), a row of  *)
(* one field, two rows that give the same query, and a row of three        *)
(* fields with a space in its title and a carriage return in its third    *)
(* field.                                                                  *)
(***************************************************************************)
RowSet == { <<>>,
            << <<"D">> >>,
            << <<"D">>, <<"h">> >>,
            << <<"d">>, <<"h">> >>,
            << <<"d", " ", "x">>, <<"H">>, <<"k", "\r">> >> }

InputHeaders == << <<"t">>, <<"a">> >>

RECURSIVE SeqsUpTo(_, _)
SeqsUpTo(S, n) ==
    IF n = 0 THEN { <<>> }
    ELSE LET shorter == SeqsUpTo(S, n - 1)
         IN  shorter \cup { Append(s, x) : s \in { t \in shorter : Len(t) = n - 1 }, x \in S }

\* the content of a CSV file: the header line, then one line per row
InputFiles == { <<InputHeaders>> \o rs : rs \in SeqsUpTo(RowSet, MaxRows) }

(***************************************************************************)
(* The search endpoint.  One request attempt (the session's get and        *)
(* raise_for_status) ends in a RequestException, in an exception of        *)
(* another class, or in a response with a body.  A body is a sequence of   *)
(* tokens: "<float> avg rating", "<int> ratings" or other text.            *)
(***************************************************************************)
Avg(lit) == [k |-> "avg", lit |-> lit]

Cnt(lit) == [k |-> "cnt", lit |-> lit]

Junk == [k |-> "junk", lit |-> <<>>]

Bodies == { <<>>,
            << Avg(<<"4", ".", "2", "5">>), Junk, Cnt(<<"1", ",", "2", "3", "4">>), Cnt(<<"7">>) >>,
            << Cnt(<<"1", "2">>), Avg(<<"0", "3", ".", "9", "0">>) >> }

RequestException == [kind |-> "RequestException", body |-> <<>>]

OtherException == [kind |-> "Exception", body |-> <<>>]

Response(b) == [kind |-> "response", body |-> b]

Outcomes == {RequestException, OtherException} \cup { Response(b) : b \in Bodies }

(***************************************************************************)
(* make_request.  A call is a record: the loop index, the number of        *)
(* attempts sent, the waits made, and how the call ended.                  *)
(***************************************************************************)
NoResponse == [kind |-> "None", body |-> <<>>]

\* http counts the HTTP requests the call's sessions sent, retries the
\* retries the adapter of the current attempt has used
NewRequest(url, max_retries) ==
    [url |-> url, max_retries |-> max_retries, attempt |-> 0, st |-> "running",
     response |-> NoResponse, sent |-> 0, sleeps |-> <<>>, http |-> 0, retries |-> 0]

IdleRequest == [url |-> <<>>, max_retries |-> 0, attempt |-> 0, st |-> "idle",
                response |-> NoResponse, sent |-> 0, sleeps |-> <<>>, http |-> 0,
                retries |-> 0]

\* make_request with the last failure raised instead of returned as None
MakeRequestStepRaising(r, o) ==
    IF r.attempt >= r.max_retries
    THEN [r EXCEPT !.st = "returned", !.response = NoResponse]
    ELSE CASE o.kind = "response" ->
                [r EXCEPT !.sent = @ + 1, !.st = "returned", !.response = o]
           [] o.kind = "RequestException" ->
                IF r.attempt = r.max_retries - 1
                THEN [r EXCEPT !.sent = @ + 1, !.st = "raised"]
                ELSE [r EXCEPT !.sent = @ + 1, !.attempt = @ + 1,
                               !.sleeps = Append(@, 2 ^ r.attempt)]
           [] OTHER ->
                [r EXCEPT !.sent = @ + 1, !.st = "raised"]

\* make_request sleeping after its last failed attempt as well
MakeRequestStepSleepLast(r, o) ==
    IF r.attempt >= r.max_retries
    THEN [r EXCEPT !.st = "returned", !.response = NoResponse]
    ELSE CASE o.kind = "response" ->
                [r EXCEPT !.sent = @ + 1, !.st = "returned", !.response = o]
           [] o.kind = "RequestException" ->
                IF r.attempt = r.max_retries - 1
                THEN [r EXCEPT !.sent = @ + 1, !.st = "returned", !.response = NoResponse,
                               !.sleeps = Append(@, 2 ^ r.attempt)]
                ELSE [r EXCEPT !.sent = @ + 1, !.attempt = @ + 1,
                               !.sleeps = Append(@, 2 ^ r.attempt)]
           [] OTHER ->
                [r EXCEPT !.sent = @ + 1, !.st = "raised"]

\* one pass of the loop body of make_request, given how the attempt ends
MakeRequestStep(req, o) ==
    IF req.attempt >= req.max_retries
    THEN \* range(max_retries) is exhausted: the function falls off its end
         [req EXCEPT !.st = "returned", !.response = NoResponse]
    ELSE CASE o.kind = "response" ->
                [req EXCEPT !.sent = @ + 1, !.st = "returned", !.response = o]
           [] o.kind = "RequestException" ->
                IF req.attempt = req.max_retries - 1
                THEN [req EXCEPT !.sent = @ + 1, !.st = "returned", !.response = NoResponse]
                ELSE [req EXCEPT !.sent = @ + 1, !.attempt = @ + 1,
                                 !.sleeps = Append(@, 2 ^ req.attempt)]
           [] OTHER ->
                [req EXCEPT !.sent = @ + 1, !.st = "raised"]

(***************************************************************************)
(* scrape_book_data.                                                       *)
(***************************************************************************)
\* title, author, *_ = row  raises ValueError on a row of fewer than two fields
UnpackRaises(row) == Len(row) < 2

Query(row) == Lower(Replace(row[1] \o <<" ">> \o row[2], " ", "+"))

SearchUrl(row) == <<"GR_URL/search?q=">> \o Query(row) \o <<"&qid=">>

\* re.search(pattern, text, re.DOTALL): the leftmost "<float> avg rating" that
\* has an "<int> ratings" after it, with the nearest such count
AvgIndexes(body) ==
    { i \in 1..Len(body) : body[i].k = "avg" /\ \E j \in (i + 1)..Len(body) : body[j].k = "cnt" }

Min(S) == CHOOSE x \in S : \A y \in S : x <= y

HasMatch(body) == AvgIndexes(body) # {}

MatchGroup1(body) == body[Min(AvgIndexes(body))].lit

MatchGroup2(body) ==
    LET i == Min(AvgIndexes(body))
    IN  body[Min({ j \in (i + 1)..Len(body) : body[j].k = "cnt" })].lit

\* scrape_book_data with num_ratings left unassigned on a match
EnrichedRowRatingOnly(row, response) ==
    IF response.kind = "None"
    THEN row \o <<None, None>>
    ELSE IF HasMatch(response.body)
         THEN row \o <<PyFloat(MatchGroup1(response.body)), None>>
         ELSE row \o <<None, None>>

\* lines 180-196: the row returned for the response make_request gave
EnrichedRow(row, response) ==
    IF response.kind = "None"
    THEN row \o <<None, None>>
    ELSE IF HasMatch(response.body)
         THEN row \o <<PyFloat(MatchGroup1(response.body)), PyInt(MatchGroup2(response.body))>>
         ELSE row \o <<None, None>>

(***************************************************************************)
(* write_csv: csv.writer writes None as the empty cell and a number as     *)
(* its text.                                                               *)
(***************************************************************************)
CsvCell(v) == IF IsNone(v) THEN <<>>
              ELSE IF IsFloat(v) \/ IsInt(v) THEN Tail(v)
              ELSE v

CsvLine(row) == [i \in 1..Len(row) |-> CsvCell(row[i])]

CsvText(headers_, data) == <<CsvLine(headers_)>> \o [i \in 1..Len(data) |-> CsvLine(data[i])]

\* what a file can hold after a write_csv call that raised: the old content
\* when open failed, else the part written before the error
FailedWrites(old, text) == {old} \cup { SubSeq(text, 1, n) : n \in 0..(Len(text) - 1) }

(***************************************************************************)
(* verify_title_and_author and the reply parsing of verify_book_info.  A   *)
(* reply is a sequence of tokens; the markers "title:" and ", author:"     *)
(* are tokens of their own.                                                *)
(***************************************************************************)
Whitespace == {" ", "\n"}

RECURSIVE LStrip(_, _)
LStrip(s, W) == IF s # <<>> /\ Head(s) \in W THEN LStrip(Tail(s), W) ELSE s

RECURSIVE RStrip(_, _)
RStrip(s, W) ==
    IF s # <<>> /\ s[Len(s)] \in W THEN RStrip(SubSeq(s, 1, Len(s) - 1), W) ELSE s

\* str.strip()
Strip(s, W) == RStrip(LStrip(s, W), W)

\* str.split(sep): the parts between the occurrences of sep
RECURSIVE Split(_, _)
Split(s, sep) ==
    LET at == IndexOf(s, sep)
    IN  IF at = 0 THEN <<s>>
        ELSE <<SubSeq(s, 1, at - 1)>> \o Split(SubSeq(s, at + 1, Len(s)), sep)

Replies == { <<"Correct">>,
             <<" ", "CORRECT", "\n">>,
             <<"Correct", "junk">>,
             <<"title:", " ", "'", "Dune", "'", ", author:", " ", "'", "Herbert", "'">>,
             <<"title:", "Dune", "\n", ", author:", "Herbert", ", author:", "junk">>,
             <<"Dune", ", author:", "Herbert">>,
             <<"junk">> }

\* how the completion call ends: it raises, or it gives a content that is
\* None, empty or a reply
LMOutcomes == { [kind |-> "raise", content |-> <<>>],
                [kind |-> "content", content |-> None],
                [kind |-> "content", content |-> <<>>] }
              \cup { [kind |-> "content", content |-> r] : r \in Replies }

\* verify_title_and_author with the error text returned from the handler
VerifyTitleAndAuthorErrText(lm) ==
    IF lm.kind = "raise" THEN <<"Error querying OpenAI">>
    ELSE IF IsNone(lm.content) \/ lm.content = <<>> THEN <<"correct">>
    ELSE lm.content

\* lines 157-171
VerifyTitleAndAuthor(lm) ==
    IF lm.kind = "raise" THEN <<"correct">>
    ELSE IF IsNone(lm.content) \/ lm.content = <<>> THEN <<"correct">>
    ELSE lm.content

\* line 113
IsCorrect(res) == Strip(Lower(res), Whitespace) = <<"correct">>

\* lines 117-135: the state the row ends in, with the new title and author
\* of a suggestion or the text of the exception
ParseReply(res) ==
    LET res_parts == Split(Replace(res, "\n", " "), ", author:")
    IN  IF Len(res_parts) # 2
        THEN [st |-> "ErrorFallback", title |-> <<>>, author |-> <<>>,
              err |-> <<"Unexpected response format">>]
        ELSE LET title_parts == Split(res_parts[1], "title:")
             IN  IF Len(title_parts) < 2
                 THEN [st |-> "ErrorFallback", title |-> <<>>, author |-> <<>>,
                       err |-> <<"list index out of range">>]
                 ELSE [st |-> "Suggested",
                       title |-> Strip(Strip(title_parts[2], Whitespace), {"'"}),
                       author |-> Strip(Strip(res_parts[2], Whitespace), {"'"}),
                       err |-> None]

\* lines 113-135: the outcome of one row for the reply res
RowOutcome(res) ==
    IF IsCorrect(res)
    THEN [st |-> "Confirmed", title |-> <<>>, author |-> <<>>, err |-> None]
    ELSE ParseReply(res)

ComparisonHeaders ==
    << <<"Old Title">>, <<"New Title">>, <<"Old Author">>, <<"New Author">>, <<"Error">> >>

(***************************************************************************)
(* State.                                                                  *)
(***************************************************************************)
VARIABLES
    stage,          \* the stage main runs: "enrich", "verify" or a lone "fetch"
    pc,             \* where the running stage is
    inputFile,      \* content of INPUT_CSV
    outputFile,     \* content of OUTPUT_CSV
    backupFile,     \* content of backup_output.csv
    compareFile,    \* content of COMPARE_CSV
    console,        \* the result rows printed as a last resort
    headers,        \* scrape_gr_data / verify_book_info: headers
    rows,           \* the data rows of the file that was opened
    tasks,          \* future_to_row: the submitted futures with their rows
    results,        \* scrape_gr_data: results
    delays,         \* the sleep calls of the thread that runs the stage
    writes,         \* the write_csv calls and the console fallback of the run
    runs,           \* one entry per ended run of scrape_gr_data
    endpoint,       \* the answers of a deterministic search endpoint
    req,            \* the call of a lone make_request
    fetchLog,       \* how each attempt of the lone call ended
    vidx,           \* verify_book_info: rows taken from the reader so far
    updated_rows,   \* verify_book_info: updated_rows
    comparison_rows,\* verify_book_info: comparison_rows
    vstates,        \* per processed row: how the completion call ended, the
                    \* reply, and the state the row ended in
    order,          \* the futures in the order as_completed gave them
    sessionUses,    \* the k such that some session served a k-th request attempt
    httpSeen,       \* the kinds of answer the transport of a lone call got
    csvIn,          \* the headers and rows handed to write_csv
    csvFile,        \* the characters write_csv put in the file
    csvOut          \* the headers and rows read back from the file

vars == <<stage, pc, inputFile, outputFile, backupFile, compareFile, console, headers,
          rows, tasks, results, delays, writes, runs, endpoint, req, fetchLog, vidx,
          updated_rows, comparison_rows, vstates, order, sessionUses, httpSeen,
          csvIn, csvFile, csvOut>>

csvVars == <<csvIn, csvFile, csvOut>>

fileVars == <<inputFile, outputFile, backupFile, compareFile, console>>

fetchVars == <<endpoint, req, fetchLog>>

WriteCall(path, ok) == [path |-> path, ok |-> ok]

verifyVars == <<vidx, updated_rows, comparison_rows, vstates>>

InitCommon ==
    /\ outputFile = <<>>
    /\ backupFile = <<>>
    /\ compareFile = <<>>
    /\ console = <<>>
    /\ headers = <<>>
    /\ rows = <<>>
    /\ tasks = <<>>
    /\ results = <<>>
    /\ delays = <<>>
    /\ writes = <<>>
    /\ runs = <<>>
    /\ fetchLog = <<>>
    /\ vidx = 0
    /\ updated_rows = <<>>
    /\ comparison_rows = <<>>
    /\ vstates = <<>>
    /\ order = <<>>
    /\ sessionUses = {}
    /\ httpSeen = {}
    /\ pc = "start"

NoCsv == [headers |-> <<>>, rows |-> <<>>]

CsvIdle ==
    /\ csvIn = NoCsv
    /\ csvFile = <<>>
    /\ csvOut = NoCsv

\* main runs one stage on the input file; the endpoint answers as it likes
Init ==
    /\ InitCommon
    /\ CsvIdle
    /\ stage \in {"enrich", "verify"}
    /\ inputFile \in InputFiles
    /\ endpoint = <<>>
    /\ req = IdleRequest

(***************************************************************************)
(* scrape_gr_data.                                                         *)
(***************************************************************************)
\* open(file, "r") hands the reader its text with universal newlines: a
\* carriage return, alone or before a line feed, arrives as one line feed
RECURSIVE UniversalNewlines(_)
UniversalNewlines(text) ==
    IF text = <<>> THEN <<>>
    ELSE IF Head(text) = "\r"
         THEN IF Len(text) > 1 /\ text[2] = "\n"
              THEN <<"\n">> \o UniversalNewlines(Tail(Tail(text)))
              ELSE <<"\n">> \o UniversalNewlines(Tail(text))
         ELSE <<Head(text)>> \o UniversalNewlines(Tail(text))

\* list(csv.reader(f)) over a file opened that way, field by field
ReadCsv(file) ==
    [k \in 1..Len(file) |-> [j \in 1..Len(file[k]) |-> UniversalNewlines(file[k][j])]]

\* lines 200-208
ReadInput ==
    /\ stage = "enrich" /\ pc = "start"
    /\ headers' = Head(ReadCsv(inputFile))
    /\ rows' = Tail(ReadCsv(inputFile))
    /\ order' = <<>>
    /\ sessionUses' = {}
    /\ results' = <<>>
    /\ tasks' = <<>>
    /\ delays' = <<>>
    /\ writes' = <<>>
    /\ pc' = "pool"
    /\ UNCHANGED <<stage, csvVars, httpSeen, fileVars, runs, fetchVars, verifyVars>>

Pending == [kind |-> "pending", body |-> <<>>]

\* a future: its row, the state of its call of scrape_book_data (with the
\* local response and the exception it raised), and whether it was collected
QueuedTask(row) == [row |-> row, st |-> "queued", req |-> IdleRequest,
                    response |-> Pending, exc |-> "", result |-> <<>>,
                    collected |-> FALSE]

\* line 211: executor.submit(scrape_book_data, row) for the next row
Submit ==
    /\ stage = "enrich" /\ pc = "pool"
    /\ Len(tasks) < Len(rows)
    /\ tasks' = Append(tasks, QueuedTask(rows[Len(tasks) + 1]))
    /\ UNCHANGED <<stage, csvVars, httpSeen, order, sessionUses, pc, fileVars, headers, rows, results, delays, writes, runs, fetchVars,
                   verifyVars>>

Running == { i \in 1..Len(tasks) : tasks[i].st = "running" }

Queued == { i \in 1..Len(tasks) : tasks[i].st = "queued" }

Finished == { i \in 1..Len(tasks) : tasks[i].st \in {"returned", "raised"} }

\* scrape_book_data up to its call of make_request (lines 175-179)
BeginTask(t) ==
    IF UnpackRaises(t.row)
    THEN [t EXCEPT !.st = "raised", !.exc = "ValueError"]
    ELSE [t EXCEPT !.st = "running",
                   !.req = NewRequest(SearchUrl(t.row), DefaultMaxRetries)]

\* a pool that starts a thread for every queued task
StartTaskUnbounded(i) ==
    /\ stage = "enrich" /\ pc \in {"pool", "aborting"}
    /\ i \in Queued /\ \A j \in Queued : i <= j
    /\ tasks' = [tasks EXCEPT ![i] = BeginTask(tasks[i])]
    /\ UNCHANGED <<stage, csvVars, httpSeen, order, sessionUses, pc, fileVars, headers, rows,
                   results, delays, writes, runs, fetchVars, verifyVars>>

\* a free worker of the pool takes the oldest queued task
StartTask(i) ==
    /\ stage = "enrich" /\ pc \in {"pool", "aborting"}
    /\ i \in Queued /\ \A j \in Queued : i <= j
    /\ Cardinality(Running) < MAX_WORKERS
    /\ tasks' = [tasks EXCEPT ![i] = BeginTask(tasks[i])]
    /\ UNCHANGED <<stage, csvVars, httpSeen, order, sessionUses, pc, fileVars, headers, rows, results, delays, writes, runs, fetchVars,
                   verifyVars>>

\* one pass of the retry loop inside a pooled task; when make_request
\* returns, the rest of scrape_book_data (lines 180-196) runs and the
\* call's frame is gone
StepTask(t, o) ==
    LET r == MakeRequestStep(t.req, o)
    IN  CASE r.st = "returned" ->
               [t EXCEPT !.req = IdleRequest, !.st = "returned",
                         !.response = r.response,
                         !.result = EnrichedRow(t.row, r.response)]
          [] r.st = "raised" ->
               [t EXCEPT !.req = IdleRequest, !.st = "raised", !.exc = "Exception"]
          [] OTHER -> [t EXCEPT !.req = r]

\* whether this pass of the loop of make_request reaches its try block
Sends(r) == r.st = "running" /\ r.attempt < r.max_retries

\* line 56: requests_retry_session() is called without a session, so line 35
\* makes a new one, which has served no attempt yet
AttemptSession == 0

\* a session that has served n attempts serves one more
UseSession(n) == sessionUses \cup {n + 1}

TaskAttempt(i, o) ==
    /\ stage = "enrich" /\ pc \in {"pool", "aborting"}
    /\ i \in Running
    /\ tasks' = [tasks EXCEPT ![i] = StepTask(tasks[i], o)]
    /\ sessionUses' = IF Sends(tasks[i].req) THEN UseSession(AttemptSession)
                      ELSE sessionUses
    /\ UNCHANGED <<stage, csvVars, httpSeen, order, pc, fileVars, headers, rows, results, delays, writes, runs, fetchVars,
                   verifyVars>>

\* line 221: the handler's print evaluates row[0]
HandlerRaises(row) == Len(row) = 0

\* a collector that puts each row at the front of results
InsertResult(res, row) == <<row>> \o res

\* lines 218 and 222: results.append
AppendResult(res, row) == Append(res, row)

\* lines 216-223: the collecting thread takes a finished future
Collect(i) ==
    /\ stage = "enrich" /\ pc = "pool"
    /\ Len(tasks) = Len(rows)
    /\ i \in Finished /\ ~tasks[i].collected
    /\ tasks' = [tasks EXCEPT ![i].collected = TRUE]
    /\ order' = Append(order, i)
    /\ IF tasks[i].st = "returned"
       THEN /\ results' = AppendResult(results, tasks[i].result)
            /\ delays' = Append(delays, GR_DELAY)
            /\ pc' = pc
       ELSE IF HandlerRaises(tasks[i].row)
            THEN \* IndexError leaves the loop; the executor is shut down
                 /\ pc' = "aborting"
                 /\ UNCHANGED <<results, delays>>
            ELSE /\ results' = AppendResult(results, tasks[i].row \o <<None, None>>)
                 /\ delays' = Append(delays, GR_DELAY)
                 /\ pc' = pc
    /\ UNCHANGED <<stage, csvVars, httpSeen, sessionUses, fileVars, headers, rows, writes, runs, fetchVars, verifyVars>>

\* what a run of scrape_gr_data read, and what it delivered to which sink
RunEntry(sink, text) == [file |-> inputFile, results |-> results, sink |-> sink,
                         text |-> text]

\* line 210: leaving the with block waits for the pool, then the error
\* escapes scrape_gr_data
Abort ==
    /\ stage = "enrich" /\ pc = "aborting"
    /\ Queued = {} /\ Running = {}
    /\ pc' = "aborted"
    /\ runs' = Append(runs, RunEntry("none", <<>>))
    /\ UNCHANGED <<stage, csvVars, httpSeen, order, sessionUses, fileVars, headers, rows, tasks, results, delays, writes,
                   fetchVars, verifyVars>>

AllCollected == Len(tasks) = Len(rows) /\ \A i \in 1..Len(tasks) : tasks[i].collected

ExtendedHeaders(h) == h \o << <<"rating">>, <<"num_ratings">> >>

\* the primary write aimed at INPUT_CSV
WritePrimaryOverInput(ok) ==
    /\ stage = "enrich" /\ pc = "pool"
    /\ AllCollected
    /\ headers' = ExtendedHeaders(headers)
    /\ writes' = Append(writes, WriteCall("output", ok))
    /\ IF ok
       THEN /\ inputFile' = CsvText(headers', results)
            /\ pc' = "done"
            /\ runs' = Append(runs, RunEntry("output", inputFile'))
       ELSE /\ inputFile' \in FailedWrites(inputFile, CsvText(headers', results))
            /\ pc' = "backup"
            /\ runs' = runs
    /\ UNCHANGED <<stage, csvVars, httpSeen, order, sessionUses, outputFile, backupFile, compareFile, console, rows, tasks, results,
                   delays, fetchVars, verifyVars>>

\* lines 225-232: headers.extend, then the primary write
WritePrimary(ok) ==
    /\ stage = "enrich" /\ pc = "pool"
    /\ AllCollected
    /\ headers' = ExtendedHeaders(headers)
    /\ writes' = Append(writes, WriteCall("output", ok))
    /\ IF ok
       THEN /\ outputFile' = CsvText(headers', results)
            /\ pc' = "done"
            /\ runs' = Append(runs, RunEntry("output", outputFile'))
       ELSE /\ outputFile' \in FailedWrites(outputFile, CsvText(headers', results))
            /\ pc' = "backup"
            /\ runs' = runs
    /\ UNCHANGED <<stage, csvVars, httpSeen, order, sessionUses, inputFile, backupFile, compareFile, console, rows, tasks, results,
                   delays, fetchVars, verifyVars>>

\* the backup write aimed at OUTPUT_CSV again
WriteBackupToPrimary(ok) ==
    /\ stage = "enrich" /\ pc = "backup"
    /\ writes' = Append(writes, WriteCall("backup", ok))
    /\ IF ok
       THEN /\ outputFile' = CsvText(headers, results)
            /\ pc' = "done"
            /\ runs' = Append(runs, RunEntry("backup", outputFile'))
       ELSE /\ outputFile' \in FailedWrites(outputFile, CsvText(headers, results))
            /\ pc' = "console"
            /\ runs' = runs
    /\ UNCHANGED <<stage, csvVars, httpSeen, order, sessionUses, inputFile, backupFile, compareFile, console, headers, rows, tasks,
                   results, delays, fetchVars, verifyVars>>

\* lines 233-238
WriteBackup(ok) ==
    /\ stage = "enrich" /\ pc = "backup"
    /\ writes' = Append(writes, WriteCall("backup", ok))
    /\ IF ok
       THEN /\ backupFile' = CsvText(headers, results)
            /\ pc' = "done"
            /\ runs' = Append(runs, RunEntry("backup", backupFile'))
       ELSE /\ backupFile' \in FailedWrites(backupFile, CsvText(headers, results))
            /\ pc' = "console"
            /\ runs' = runs
    /\ UNCHANGED <<stage, csvVars, httpSeen, order, sessionUses, inputFile, outputFile, compareFile, console, headers, rows, tasks,
                   results, delays, fetchVars, verifyVars>>

\* lines 239-241
PrintResults ==
    /\ stage = "enrich" /\ pc = "console"
    /\ console' = console \o results
    /\ writes' = Append(writes, WriteCall("console", TRUE))
    /\ pc' = "done"
    /\ runs' = Append(runs, RunEntry("console", results))
    /\ UNCHANGED <<stage, csvVars, httpSeen, order, sessionUses, inputFile, outputFile, backupFile, compareFile, headers, rows,
                   tasks, results, delays, fetchVars, verifyVars>>

PoolExtra == 1

\* the futures there can be, and the futures there are
FutureIds == 1..(MaxRows + MAX_WORKERS + PoolExtra)

TaskIds == 1..Len(tasks)

Enrich ==
    \/ ReadInput
    \/ Submit
    \/ \E i \in TaskIds : StartTask(i)
    \/ \E i \in TaskIds : Collect(i)
    \/ Abort
    \/ \E ok \in BOOLEAN : WritePrimary(ok)
    \/ \E ok \in BOOLEAN : WriteBackup(ok)
    \/ PrintResults

(***************************************************************************)
(* verify_book_info.                                                       *)
(***************************************************************************)
\* lines 104-108
OpenInput ==
    /\ stage = "verify" /\ pc = "start"
    /\ headers' = Head(ReadCsv(inputFile))
    /\ rows' = Tail(ReadCsv(inputFile))
    /\ vidx' = 0
    /\ updated_rows' = <<>>
    /\ comparison_rows' = <<>>
    /\ vstates' = <<>>
    /\ pc' = "vloop"
    /\ UNCHANGED <<stage, csvVars, httpSeen, order, sessionUses, fileVars, tasks, results, delays, writes, runs, fetchVars>>

Rest(row) == SubSeq(row, 3, Len(row))

\* lines 113-135: what the row adds to updated_rows
UpdatedRow(row, out) ==
    IF out.st = "Suggested" THEN <<out.title, out.author>> \o Rest(row) ELSE row

\* the loop with the fallback branch recording no comparison entry
ComparisonEntriesNoFallback(row, out) ==
    CASE out.st = "Suggested" -> << <<row[1], out.title, row[2], out.author, None>> >>
      [] OTHER -> <<>>

\* lines 129 and 135: what the row adds to comparison_rows
ComparisonEntries(row, out) ==
    CASE out.st = "Confirmed" -> <<>>
      [] out.st = "Suggested" -> << <<row[1], out.title, row[2], out.author, None>> >>
      [] OTHER -> << <<row[1], row[1], row[2], row[2], out.err>> >>

\* lines 109-137: one pass of the loop, for the way the completion call ends
VerifyRow(lm) ==
    /\ stage = "verify" /\ pc = "vloop"
    /\ vidx < Len(rows)
    /\ LET row == rows[vidx + 1]
       IN  IF UnpackRaises(row)
           THEN \* ValueError at line 110 escapes verify_book_info
                /\ pc' = "aborted"
                /\ UNCHANGED <<vidx, updated_rows, comparison_rows, vstates, delays>>
           ELSE LET out == RowOutcome(VerifyTitleAndAuthor(lm))
                IN  /\ updated_rows' = Append(updated_rows, UpdatedRow(row, out))
                    /\ comparison_rows' = comparison_rows \o ComparisonEntries(row, out)
                    /\ vstates' = Append(vstates, [st |-> out.st, call |-> lm.kind,
                                                    res |-> VerifyTitleAndAuthor(lm)])
                    /\ vidx' = vidx + 1
                    /\ delays' = Append(delays, 1)
                    /\ pc' = pc
    /\ UNCHANGED <<stage, csvVars, httpSeen, order, sessionUses, fileVars, headers, rows, tasks, results, writes, runs, fetchVars>>

\* lines 140-144
RewriteInput(ok) ==
    /\ stage = "verify" /\ pc = "vloop"
    /\ vidx = Len(rows)
    /\ IF ok
       THEN /\ inputFile' = CsvText(headers, updated_rows)
            /\ pc' = "vcompare"
       ELSE /\ inputFile' \in FailedWrites(inputFile, CsvText(headers, updated_rows))
            /\ pc' = "aborted"
    /\ UNCHANGED <<stage, csvVars, httpSeen, order, sessionUses, outputFile, backupFile, compareFile, console, headers, rows, tasks,
                   results, delays, writes, runs, fetchVars, verifyVars>>

\* lines 147-152
WriteComparison(ok) ==
    /\ stage = "verify" /\ pc = "vcompare"
    /\ IF ok
       THEN /\ compareFile' = CsvText(ComparisonHeaders, comparison_rows)
            /\ pc' = "done"
       ELSE /\ compareFile' \in
                   FailedWrites(compareFile, CsvText(ComparisonHeaders, comparison_rows))
            /\ pc' = "aborted"
    /\ UNCHANGED <<stage, csvVars, httpSeen, order, sessionUses, inputFile, outputFile, backupFile, console, headers, rows, tasks,
                   results, delays, writes, runs, fetchVars, verifyVars>>

Verify ==
    \/ OpenInput
    \/ \E lm \in LMOutcomes : VerifyRow(lm)
    \/ \E ok \in BOOLEAN : RewriteInput(ok)
    \/ \E ok \in BOOLEAN : WriteComparison(ok)

Next ==
    \/ Enrich
    \/ \E i \in TaskIds, o \in Outcomes : TaskAttempt(i, o)
    \/ Verify

Spec == Init /\ [][Next]_vars

\* the threads are scheduled fairly: the main thread takes its next step
\* when it has one, and so does every worker, whose request attempt ends
\* within its timeout
SpecLive ==
    /\ Init
    /\ [][Next]_vars
    /\ WF_vars(Enrich)
    /\ WF_vars(Verify)
    /\ \A i \in FutureIds : WF_vars(\E o \in Outcomes : TaskAttempt(i, o))

(***************************************************************************)
(* The orchestrator run again on the same input, against a search          *)
(* endpoint that gives every url one answer.                               *)
(***************************************************************************)
Urls == { SearchUrl(r) : r \in { x \in RowSet : ~UnpackRaises(x) } }

InitTwice ==
    /\ InitCommon
    /\ CsvIdle
    /\ stage = "enrich"
    /\ inputFile \in InputFiles
    /\ endpoint \in [Urls -> Outcomes]
    /\ req = IdleRequest

DetAttempt(i) ==
    /\ i \in Running
    /\ TaskAttempt(i, endpoint[tasks[i].req.url])

\* main is started again: all state is read again from the files
Rerun ==
    /\ stage = "enrich" /\ pc \in {"done", "aborted"}
    /\ Len(runs) < MaxRuns
    /\ pc' = "start"
    /\ UNCHANGED <<stage, csvVars, httpSeen, order, sessionUses, fileVars, headers, rows, tasks, results, delays, writes, runs, fetchVars,
                   verifyVars>>

NextTwice ==
    \/ Enrich
    \/ \E i \in TaskIds : DetAttempt(i)
    \/ Rerun

SpecTwice == InitTwice /\ [][NextTwice]_vars

(***************************************************************************)
(* A lone call make_request(url, max_retries).                             *)
(***************************************************************************)
InitFetch ==
    /\ InitCommon
    /\ CsvIdle
    /\ stage = "fetch"
    /\ inputFile = <<InputHeaders>>
    /\ endpoint = <<>>
    /\ \E u \in Urls, m \in 0..MaxAttemptsArg : req = NewRequest(u, m)

FetchAttempt(o) ==
    /\ stage = "fetch"
    /\ req.st = "running"
    /\ req' = MakeRequestStep(req, o)
    /\ fetchLog' = IF req'.sent > req.sent THEN Append(fetchLog, o) ELSE fetchLog
    /\ sessionUses' = IF Sends(req) THEN UseSession(AttemptSession) ELSE sessionUses
    /\ UNCHANGED <<stage, csvVars, httpSeen, order, pc, fileVars, headers, rows, tasks, results, delays, writes,
                   runs, endpoint, verifyVars>>

NextFetch == \E o \in Outcomes : FetchAttempt(o)

SpecFetch == InitFetch /\ [][NextFetch]_vars

(***************************************************************************)
(* A lone call of make_request seen at the level of HTTP: the adapter that *)
(* requests_retry_session mounts repeats a request by itself.              *)
(***************************************************************************)
RetryTotal == 3

ForceList == {"500", "502", "503", "504"}

\* what one HTTP request can meet: a status, or a connection or read error
Answers == {"200", "500", "501", "neterr"}

\* Retry(total, read, connect, status_forcelist): the adapter sends the
\* request again after a status of the list or a network error, while the
\* budget of the attempt's own Retry lasts
InnerRetry(r, a) == a \in ForceList \cup {"neterr"} /\ r.retries < RetryTotal

\* how the attempt ends for make_request: a response that passes
\* raise_for_status, or a RequestException (HTTPError for a status that is
\* not retried, RetryError or ConnectionError for a used up budget)
AttemptOutcome(a) == IF a = "200" THEN Response(<<>>) ELSE RequestException

\* attempts that draw on one retry budget for the whole call
TransportStepOneBudget(r, a) ==
    IF ~Sends(r) THEN MakeRequestStep(r, RequestException)
    ELSE IF InnerRetry(r, a) THEN [r EXCEPT !.http = @ + 1, !.retries = @ + 1]
    ELSE MakeRequestStep([r EXCEPT !.http = @ + 1], AttemptOutcome(a))

\* one HTTP request of the call r and its answer a; every attempt has the
\* Retry object made for it at line 36, so its budget starts full
TransportStep(r, a) ==
    IF ~Sends(r) THEN MakeRequestStep(r, RequestException)
    ELSE IF InnerRetry(r, a) THEN [r EXCEPT !.http = @ + 1, !.retries = @ + 1]
    ELSE MakeRequestStep([r EXCEPT !.http = @ + 1, !.retries = 0], AttemptOutcome(a))

InitRetry ==
    /\ InitCommon
    /\ CsvIdle
    /\ stage = "retry"
    /\ inputFile = <<InputHeaders>>
    /\ endpoint = <<>>
    /\ \E u \in Urls, m \in 0..MaxAttemptsArg : req = NewRequest(u, m)

FetchHttp(a) ==
    /\ stage = "retry"
    /\ req.st = "running"
    /\ req' = TransportStep(req, a)
    /\ httpSeen' = IF req'.http > req.http THEN httpSeen \cup {a} ELSE httpSeen
    /\ fetchLog' = IF req'.sent > req.sent THEN Append(fetchLog, AttemptOutcome(a))
                   ELSE fetchLog
    /\ sessionUses' = IF Sends(req) /\ req.retries = 0 THEN UseSession(AttemptSession)
                      ELSE sessionUses
    /\ UNCHANGED <<stage, csvVars, order, pc, fileVars, headers, rows, tasks, results, delays,
                   writes, runs, endpoint, verifyVars>>

NextRetry == \E a \in Answers : FetchHttp(a)

SpecRetry == InitRetry /\ [][NextRetry]_vars

(***************************************************************************)
(* An enrichment run over more rows than the pool has workers, against an  *)
(* endpoint that gives every url one answer.                               *)
(***************************************************************************)
PoolRows == MAX_WORKERS + PoolExtra

FullRow == << <<"D">>, <<"h">> >>

\* input files of PoolRows rows: all of two fields, or the last one blank
PoolFiles ==
    { <<InputHeaders>> \o [k \in 1..PoolRows |-> FullRow],
      <<InputHeaders>> \o [k \in 1..PoolRows |-> IF k = PoolRows THEN <<>> ELSE FullRow] }

PoolOutcomes == {OtherException, Response(<<>>)}

InitPool ==
    /\ InitCommon
    /\ CsvIdle
    /\ stage = "enrich"
    /\ inputFile \in PoolFiles
    /\ \E o \in PoolOutcomes : endpoint = [u \in Urls |-> o]
    /\ req = IdleRequest

NextPool ==
    \/ Enrich
    \/ \E i \in TaskIds : DetAttempt(i)

SpecPool == InitPool /\ [][NextPool]_vars

(***************************************************************************)
(* write_csv and the reading of a file, character by character.  A string  *)
(* is a sequence of characters; a file is one too.                         *)
(***************************************************************************)
MaxFieldLen == 2

MaxFields == 2

MaxCsvRows == 1

CsvChars == {"a", ",", "\"", "\n", "\r"}

CsvStrings(n) == SeqsUpTo(CsvChars, n)

\* the header lists and row lists handed to write_csv
CsvInputs ==
    [headers : SeqsUpTo(CsvStrings(1), MaxFields),
     rows : SeqsUpTo(SeqsUpTo(CsvStrings(MaxFieldLen), MaxFields), MaxCsvRows)]

\* csv.writer with the default dialect quotes a field that holds the
\* delimiter, the quote character or a character of the line terminator
NeedsQuotes(field) == \E k \in 1..Len(field) : field[k] \in {",", "\"", "\r", "\n"}

RECURSIVE DoubleQuotes(_)
DoubleQuotes(field) ==
    IF field = <<>> THEN <<>>
    ELSE (IF Head(field) = "\"" THEN <<"\"", "\"">> ELSE <<Head(field)>>)
            \o DoubleQuotes(Tail(field))

\* a lone empty field is quoted too, so that its line is not a blank one
WriteField(field, alone) ==
    IF NeedsQuotes(field) \/ (alone /\ field = <<>>)
    THEN <<"\"">> \o DoubleQuotes(field) \o <<"\"">>
    ELSE field

RECURSIVE JoinFields(_, _)
JoinFields(row, alone) ==
    IF row = <<>> THEN <<>>
    ELSE IF Len(row) = 1 THEN WriteField(row[1], alone)
         ELSE WriteField(row[1], alone) \o <<",">> \o JoinFields(Tail(row), alone)

\* w.writerow(row): the fields, then the line terminator "\r\n"
WriteRow(row) == JoinFields(row, Len(row) = 1) \o <<"\r", "\n">>

RECURSIVE WriteRows(_)
WriteRows(data) ==
    IF data = <<>> THEN <<>> ELSE WriteRow(Head(data)) \o WriteRows(Tail(data))

\* lines 71-75; newline="" leaves the characters written as they are
WriteCsv(h, data) == WriteRow(h) \o WriteRows(data)

\* the state of csv.reader: its parser state, the field and the record it
\* is building, and the records it gave
ReaderStart == [st |-> "START_RECORD", field |-> <<>>, fields |-> <<>>, records |-> <<>>]

SaveField(p, st) == [p EXCEPT !.st = st, !.field = <<>>, !.fields = Append(p.fields, p.field)]

EndRecord(p) ==
    [p EXCEPT !.st = "START_RECORD", !.field = <<>>, !.fields = <<>>,
              !.records = Append(p.records, Append(p.fields, p.field))]

AddChar(p, c, st) == [p EXCEPT !.st = st, !.field = Append(p.field, c)]

\* the reader on one character; the lines it is fed end in "\n" only
ReaderStep(p, c) ==
    CASE p.st = "START_RECORD" /\ c = "\n" ->
            \* a blank line gives the record []
            [p EXCEPT !.records = Append(p.records, <<>>)]
      [] p.st \in {"START_RECORD", "START_FIELD"} /\ c # "\n" ->
            IF c = "\"" THEN [p EXCEPT !.st = "IN_QUOTED_FIELD"]
            ELSE IF c = "," THEN SaveField(p, "START_FIELD")
            ELSE AddChar(p, c, "IN_FIELD")
      [] p.st = "START_FIELD" /\ c = "\n" -> EndRecord(p)
      [] p.st = "IN_FIELD" ->
            IF c = "\n" THEN EndRecord(p)
            ELSE IF c = "," THEN SaveField(p, "START_FIELD")
            ELSE AddChar(p, c, "IN_FIELD")
      [] p.st = "IN_QUOTED_FIELD" ->
            IF c = "\"" THEN [p EXCEPT !.st = "QUOTE_IN_QUOTED_FIELD"]
            ELSE AddChar(p, c, "IN_QUOTED_FIELD")
      [] p.st = "QUOTE_IN_QUOTED_FIELD" ->
            IF c = "\"" THEN AddChar(p, c, "IN_QUOTED_FIELD")
            ELSE IF c = "," THEN SaveField(p, "START_FIELD")
            ELSE IF c = "\n" THEN EndRecord(p)
            ELSE AddChar(p, c, "IN_FIELD")

RECURSIVE ReaderRun(_, _)
ReaderRun(p, text) ==
    IF text = <<>>
    THEN \* the file ends: a record under way is given as it stands
         IF p.st = "START_RECORD" THEN p.records ELSE EndRecord(p).records
    ELSE ReaderRun(ReaderStep(p, Head(text)), Tail(text))

\* csv.reader(f) over open(file, "r"): all the records of the file
ReadRecords(text) == ReaderRun(ReaderStart, UniversalNewlines(text))

\* a lone call of write_csv
CsvWrite ==
    /\ stage = "csv" /\ pc = "start"
    /\ csvFile' = WriteCsv(csvIn.headers, csvIn.rows)
    /\ pc' = "written"
    /\ UNCHANGED <<stage, csvIn, csvOut, httpSeen, order, sessionUses, fileVars, headers, rows,
                   tasks, results, delays, writes, runs, fetchVars, verifyVars>>

\* lines 200-203: headers = next(reader), rows = list(reader)
CsvReadBack ==
    /\ stage = "csv" /\ pc = "written"
    /\ LET records == ReadRecords(csvFile)
       IN  /\ records # <<>>
           /\ csvOut' = [headers |-> Head(records), rows |-> Tail(records)]
    /\ pc' = "read"
    /\ UNCHANGED <<stage, csvIn, csvFile, httpSeen, order, sessionUses, fileVars, headers, rows,
                   tasks, results, delays, writes, runs, fetchVars, verifyVars>>

InitCsv ==
    /\ InitCommon
    /\ stage = "csv"
    /\ inputFile = <<>>
    /\ endpoint = <<>>
    /\ req = IdleRequest
    /\ csvIn \in CsvInputs
    /\ csvFile = <<>>
    /\ csvOut = NoCsv

NextCsv == CsvWrite \/ CsvReadBack

SpecCsv == InitCsv /\ [][NextCsv]_vars

(***************************************************************************)
(* Properties.                                                             *)
(***************************************************************************)
Range(f) == { f[i] : i \in DOMAIN f }

BagOfSeq(q) == [x \in Range(q) |-> Cardinality({ i \in DOMAIN q : q[i] = x })]

Last(q) == q[Len(q)]

\* the loop over as_completed is over, by its end or by an exception
CollectionEnded ==
    /\ stage = "enrich"
    /\ \/ pc \in {"aborting", "aborted", "backup", "console", "done"}
       \/ pc = "pool" /\ AllCollected

\* what a finished future must contribute to results
Contribution(t) == IF t.st = "returned" THEN t.result ELSE t.row \o <<None, None>>

\* C1: when collection ends, results holds exactly one row per submitted
\* input row, none lost and none duplicated: the row a task returned, or
\* the original row followed by two absent fields for a task that raised,
\* whatever the interleaving and whichever tasks raised.
C1_OneResultPerRow ==
    CollectionEnded =>
        /\ Len(results) = Len(rows)
        /\ Len(tasks) = Len(rows)
        /\ BagOfSeq(results) = BagOfSeq([i \in 1..Len(tasks) |-> Contribution(tasks[i])])

\* C2: no error aborts the enrichment run: whatever fetches fail, tasks
\* raise or writes fail, no exception escapes scrape_gr_data, and a run
\* that ended has delivered one row per input row to a sink; when every
\* fetch failed, each of those rows carries two absent enrichment fields.
C2_NoErrorAbortsRun ==
    stage = "enrich" =>
        /\ pc \notin {"aborting", "aborted"}
        /\ pc = "done" =>
              /\ Len(results) = Len(rows)
              /\ (\A i \in 1..Len(tasks) : tasks[i].response.kind # "response")
                    => \A k \in 1..Len(results) :
                          SubSeq(results[k], Len(results[k]) - 1, Len(results[k]))
                              = <<None, None>>

\* C3: every call of scrape_book_data that met one of the three fetch
\* outcomes, or that never came to fetch, returns a row with exactly two
\* more fields than its input, whose leading fields are the input row.
C3_TwoMoreFields ==
    \A i \in 1..Len(tasks) :
        (tasks[i].st \in {"returned", "raised"} /\ tasks[i].exc # "Exception") =>
            /\ tasks[i].st = "returned"
            /\ Len(tasks[i].result) = Len(tasks[i].row) + 2
            /\ SubSeq(tasks[i].result, 1, Len(tasks[i].row)) = tasks[i].row

\* C4: a row of fewer than two fields aborts no stage: the enrichment run
\* never leaves its loop by an exception, and the verifier stops only
\* after it has processed every row.
C4_ShortRowsTolerated ==
    /\ stage = "enrich" => pc \notin {"aborting", "aborted"}
    /\ (stage = "verify" /\ pc = "aborted") => vidx = Len(rows)

\* C1 holds of every input file without a blank line.
C1_HoldsWithoutBlankRow ==
    (\A k \in 1..Len(rows) : rows[k] # <<>>) => C1_OneResultPerRow

C1_HoldsWithoutBlankRow_Witness ==
    /\ stage = "enrich" /\ pc = "done" /\ Len(results) = 2
    /\ \E i \in 1..Len(tasks) : tasks[i].exc = "ValueError"
    /\ \E i \in 1..Len(tasks) : tasks[i].exc = "Exception"

\* C3 holds of every row of two or more fields.
C3_HoldsForFullRows ==
    \A i \in 1..Len(tasks) :
        (tasks[i].st \in {"returned", "raised"} /\ tasks[i].exc # "Exception"
            /\ Len(tasks[i].row) >= 2) =>
            /\ tasks[i].st = "returned"
            /\ Len(tasks[i].result) = Len(tasks[i].row) + 2
            /\ SubSeq(tasks[i].result, 1, Len(tasks[i].row)) = tasks[i].row

AllRequestExceptions(log) == \A k \in 1..Len(log) : log[k].kind = "RequestException"

\* C5: make_request(url, max_retries) sends at most max_retries attempts;
\* no attempt follows one that got a response, and that response is what
\* the call returns; the call raises only on an exception that is not a
\* RequestException; and when max_retries attempts all failed with a
\* RequestException the call has returned None.  With max_retries = 0 it
\* returns None without sending anything.
C5_FetchContract ==
    stage = "fetch" =>
        /\ req.sent = Len(fetchLog)
        /\ req.sent <= req.max_retries
        /\ AllRequestExceptions(SubSeq(fetchLog, 1, Len(fetchLog) - 1))
        /\ (fetchLog # <<>> /\ Last(fetchLog).kind = "response")
              => (req.st = "returned" /\ req.response = Last(fetchLog))
        /\ req.st = "raised" => (fetchLog # <<>> /\ Last(fetchLog).kind = "Exception")
        /\ (req.max_retries >= 1 /\ Len(fetchLog) = req.max_retries
                /\ AllRequestExceptions(fetchLog))
              => (req.st = "returned" /\ req.response = NoResponse)
        /\ (req.max_retries = 0 /\ req.st # "running")
              => (req.st = "returned" /\ req.response = NoResponse /\ req.sent = 0)
        /\ (req.st = "returned" /\ AllRequestExceptions(fetchLog))
              => req.response = NoResponse

\* the default five attempts all failed and the call returned None
C5_Witness ==
    /\ stage = "fetch"
    /\ req.max_retries = DefaultMaxRetries
    /\ req.sent = DefaultMaxRetries
    /\ AllRequestExceptions(fetchLog)
    /\ req.st = "returned" /\ req.response = NoResponse

NoRatingMatch(body) ==
    ~ \E i, j \in 1..Len(body) : i < j /\ body[i].k = "avg" /\ body[j].k = "cnt"

\* C6: a call of scrape_book_data whose fetch failed has returned its row
\* followed by two absent fields; in every returned row rating and
\* num_ratings are both absent or both present (a float and an int), and
\* both absent when the fetch failed or the body has no rating match.
C6_BothOrNeither ==
    \A i \in 1..Len(tasks) :
        LET t == tasks[i]
            n == Len(t.row)
        IN  /\ t.response = NoResponse
                  => (t.st = "returned" /\ t.result = t.row \o <<None, None>>)
            /\ t.st = "returned" =>
                  /\ Len(t.result) = n + 2
                  /\ IsNone(t.result[n + 1]) <=> IsNone(t.result[n + 2])
                  /\ ~IsNone(t.result[n + 1])
                        => (IsFloat(t.result[n + 1]) /\ IsInt(t.result[n + 2]))
                  /\ (t.response.kind = "response" /\ NoRatingMatch(t.response.body))
                        => (IsNone(t.result[n + 1]) /\ IsNone(t.result[n + 2]))
                  /\ (t.response.kind = "response" /\ ~NoRatingMatch(t.response.body))
                        => ~IsNone(t.result[n + 1])

\* a run ended in which one task's fetch failed and another found a rating
C6_Witness ==
    /\ stage = "enrich" /\ pc = "done"
    /\ \E i \in 1..Len(tasks) :
          tasks[i].response = NoResponse /\ tasks[i].result = tasks[i].row \o <<None, None>>
    /\ \E i \in 1..Len(tasks) :
          /\ tasks[i].response.kind = "response"
          /\ tasks[i].result = tasks[i].row \o << <<"#float", "4", ".", "2", "5">>,
                                                  <<"#int", "1", "2", "3", "4">> >>

FullText == CsvText(ExtendedHeaders(Head(inputFile)), results)

\* C7: the primary write comes first; the backup is written exactly when
\* the primary write failed, and a successful backup holds the same
\* headers and rows; the rows go to the console exactly when both writes
\* failed; a run that ended has all its results complete in one sink.
C7_WriteChain ==
    stage = "enrich" =>
        /\ Len(writes) <= 3
        /\ Len(writes) >= 1 => writes[1].path = "output"
        /\ Len(writes) >= 2 => (writes[2].path = "backup" /\ ~writes[1].ok)
        /\ Len(writes) >= 3 => (writes[3].path = "console" /\ ~writes[2].ok)
        /\ Len(writes) < 2 => backupFile = <<>>
        /\ Len(writes) < 3 => console = <<>>
        /\ pc = "done" =>
              /\ Len(results) = Len(rows)
              /\ writes # <<>> /\ Last(writes).ok
              /\ writes[1].ok => (outputFile = FullText /\ Len(writes) = 1)
              /\ ~writes[1].ok => (Len(writes) >= 2 /\ outputFile # FullText)
              /\ (Len(writes) >= 2 /\ writes[2].ok)
                    => (backupFile = FullText /\ Len(writes) = 2)
              /\ (Len(writes) >= 2 /\ ~writes[2].ok)
                    => (Len(writes) = 3 /\ backupFile # FullText /\ console = results)

\* the primary write failed and the backup file got the headers and rows
C7_Witness ==
    /\ stage = "enrich" /\ pc = "done"
    /\ Len(results) = 2
    /\ Len(writes) = 2 /\ ~writes[1].ok /\ writes[2].ok
    /\ backupFile = FullText

CorrectReplies == { <<"Correct">>, <<"correct">>, <<" ", "CORRECT", "\n">> }

NotConfirmed(k) == { j \in 1..k : vstates[j].st # "Confirmed" }

C9_CallFailureIsCorrect ==
    stage = "verify" =>
        /\ \A k \in 1..Len(vstates) :
              vstates[k].call = "raise" =>
                  (vstates[k].st = "Confirmed" /\ updated_rows[k] = rows[k])
        /\ Len(comparison_rows)
              <= Cardinality({ k \in 1..Len(vstates) : vstates[k].call # "raise" })
        /\ (pc = "aborted" /\ vidx < Len(rows)) => UnpackRaises(rows[vidx + 1])

\* the call failed on the first row and the second row was processed too
C9_Witness ==
    /\ stage = "verify"
    /\ vidx = 2
    /\ vstates[1].call = "raise" /\ vstates[2].call = "content"
    /\ comparison_rows = <<>>

\* C10: against an endpoint that gives every url one answer, any two runs
\* of scrape_gr_data on the same input either both fail or deliver the
\* same multiset of rows under the same header line, whatever the two
\* completion orders, and every run leaves the input file as it was.
C10_Idempotent ==
    \A a, b \in 1..Len(runs) :
        /\ runs[a].file = inputFile
        /\ runs[a].sink = "none" <=> runs[b].sink = "none"
        /\ (runs[a].sink # "none" /\ runs[b].sink # "none") =>
              BagOfSeq(runs[a].results) = BagOfSeq(runs[b].results)
        /\ (runs[a].sink = "output" /\ runs[b].sink = "output") =>
              /\ Head(runs[a].text) = Head(runs[b].text)
              /\ BagOfSeq(Tail(runs[a].text)) = BagOfSeq(Tail(runs[b].text))

\* two runs wrote their output file with the rows in different orders
C10_Witness ==
    /\ Len(runs) = 2
    /\ runs[1].sink = "output" /\ runs[2].sink = "output"
    /\ Len(runs[1].results) = 2
    /\ runs[1].results # runs[2].results

RECURSIVE Sum(_)
Sum(q) == IF q = <<>> THEN 0 ELSE Head(q) + Sum(Tail(q))

\* C13: make_request sleeps 2^i seconds after its failed attempt i (counted
\* from 0) and before attempt i + 1, so the waits are 1, 2, 4, ...; it does
\* not sleep before its first attempt, nor after an attempt that got a
\* response, nor after one that raised, nor after its last attempt; a call
\* whose n >= 1 attempts all failed has slept 2^(n-1) - 1 seconds in all.
C13_BackoffSchedule ==
    stage = "fetch" =>
        /\ \A k \in 1..Len(req.sleeps) : req.sleeps[k] = 2 ^ (k - 1)
        /\ req.st = "running" => Len(req.sleeps) = req.sent
        /\ (req.st # "running" /\ req.sent >= 1) => Len(req.sleeps) = req.sent - 1
        /\ req.sent = 0 => req.sleeps = <<>>
        /\ (req.st # "running" /\ req.max_retries >= 1 /\ req.sent = req.max_retries
                /\ AllRequestExceptions(fetchLog))
              => Sum(req.sleeps) = 2 ^ (req.max_retries - 1) - 1

\* the default five attempts all failed: the call slept 1, 2, 4 and 8 seconds
C13_Witness ==
    /\ stage = "fetch"
    /\ req.max_retries = DefaultMaxRetries
    /\ req.st = "returned" /\ req.response = NoResponse
    /\ req.sleeps = <<1, 2, 4, 8>>
    /\ Sum(req.sleeps) = 15

\* C12: the headers and rows read back from a file written by write_csv
\* are the headers and rows that were written, string for string.
C12_RoundTrip ==
    (stage = "csv" /\ pc = "read") => csvOut = csvIn

HasCarriageReturn(lines) ==
    \E k \in 1..Len(lines) : \E j \in 1..Len(lines[k]) : "\r" \in Range(lines[k][j])

\* the round trip does give back what was written when no string holds a
\* carriage return
C12_HoldsWithoutCarriageReturn ==
    (stage = "csv" /\ pc = "read" /\ ~HasCarriageReturn(<<csvIn.headers>> \o csvIn.rows))
        => csvOut = csvIn

\* what is read back is what was written with its newlines translated,
\* which is how the stages' rows are read field by field
C12_ReadBackTranslates ==
    (stage = "csv" /\ pc = "read")
        => <<csvOut.headers>> \o csvOut.rows = ReadCsv(<<csvIn.headers>> \o csvIn.rows)

\* the step of verify_book_info that rewrote the input file in full
RewroteInput == stage = "verify" /\ pc = "vloop" /\ pc' = "vcompare"

\* the new input file keeps the header line, the number and order of the
\* rows and, in every row, the fields after the first two
KeepsRestOfRows ==
    /\ Len(inputFile') = Len(inputFile)
    /\ Head(inputFile') = Head(inputFile)
    /\ \A k \in 2..Len(inputFile) : Rest(inputFile'[k]) = Rest(inputFile[k])

\* the verifier writes its two files only once every row is processed
WritesAfterLoop ==
    (stage = "verify" /\ (inputFile' # inputFile \/ compareFile' # compareFile))
        => (vidx = Len(rows) /\ Len(updated_rows) = Len(rows) /\ pc \in {"vloop", "vcompare"})

\* C11: verify_book_info writes the input file and the comparison file
\* only after its loop has processed every row, and the input file it
\* writes has the original header line and one row per input row in the
\* original order, with the fields after the first two as they were.
C11_VerifierRewrite ==
    [][WritesAfterLoop /\ (RewroteInput => KeepsRestOfRows)]_vars

\* the rewrite does keep them when the input file holds no carriage return
C11_HoldsWithoutCarriageReturn ==
    [][WritesAfterLoop
        /\ ((RewroteInput /\ ~HasCarriageReturn(inputFile)) => KeepsRestOfRows)]_vars

\* a verifier stopped by a short row has left both files as they were
C11_StoppedMidwayUntouched ==
    (stage = "verify" /\ pc = "aborted" /\ vidx < Len(rows))
        => (ReadCsv(inputFile) = <<headers>> \o rows /\ compareFile = <<>>)

\* C14: the orchestrator has slept GR_DELAY once for every future it has
\* collected, returned or raised, and when collection ends it has slept
\* once per input row.
C14_OneDelayPerResult ==
    stage = "enrich" =>
        /\ Len(delays) = Len(order)
        /\ \A k \in 1..Len(delays) : delays[k] = GR_DELAY
        /\ CollectionEnded => Len(delays) = Len(rows)

\* C14 holds of every input file without a blank line
C14_HoldsWithoutBlankRow ==
    (\A k \in 1..Len(rows) : rows[k] # <<>>) => C14_OneDelayPerResult

\* a pacing delay is slept by the collecting thread, right after it took
\* one future, and by no step of a worker
C14_DelaysOnCollector ==
    [][(stage = "enrich" /\ delays' # delays /\ pc # "start") =>
          /\ pc = "pool"
          /\ Len(delays') = Len(delays) + 1
          /\ Len(order') = Len(order) + 1
          /\ Len(results') = Len(results) + 1
          /\ \A i \in 1..Len(tasks) : tasks'[i].st = tasks[i].st]_vars

\* the text scrape_gr_data has to write: the input header line followed by
\* rating and num_ratings, then the rows of the futures in collection order
OutputText ==
    <<CsvLine(Head(ReadCsv(inputFile)) \o << <<"rating">>, <<"num_ratings">> >>)>>
        \o [k \in 1..Len(order) |-> CsvLine(Contribution(tasks[order[k]]))]

\* C15: the file scrape_gr_data wrote holds the input header line followed
\* by exactly rating and num_ratings, and then every row's result in the
\* order in which as_completed gave the futures, which need not be the
\* order of the input.
C15_CollectionOrder ==
    (stage = "enrich" /\ writes # <<>> /\ Last(writes).ok) =>
        /\ Range(order) = 1..Len(rows) /\ Len(order) = Len(rows)
        /\ Last(writes).path = "output" => outputFile = OutputText
        /\ Last(writes).path = "backup" => backupFile = OutputText

\* the second row's future was collected first and its result stands
\* first in the output file
C15_Witness ==
    /\ stage = "enrich" /\ pc = "done"
    /\ order = <<2, 1>>
    /\ Len(writes) = 1 /\ writes[1].ok
    /\ Contribution(tasks[1]) # Contribution(tasks[2])
    /\ outputFile[2] = CsvLine(Contribution(tasks[2]))
    /\ outputFile[3] = CsvLine(Contribution(tasks[1]))

\* at most MAX_WORKERS tasks are executing, and every session made so far
\* has served one request attempt
PoolBounded ==
    /\ Cardinality(Running) <= MAX_WORKERS
    /\ \A k \in sessionUses : k = 1

\* a step of a worker: some task starts, or one pass of its fetch ends
WorkerStep == \E i \in 1..Len(tasks) : Len(tasks') = Len(tasks) /\ tasks'[i].st # tasks[i].st

\* C16: at every moment of an enrichment run at most MAX_WORKERS tasks
\* are executing and no session has served more than one request attempt;
\* results grows only by a step of the collecting thread, which appends
\* the row of the future it took; and a step of a worker changes nothing
\* but its own task and the session it made.
C16_BoundedPool ==
    [][stage = "enrich" =>
          /\ PoolBounded /\ PoolBounded'
          /\ (results' # results /\ pc # "start") =>
                /\ pc = "pool" /\ ~WorkerStep
                /\ Len(order') = Len(order) + 1
                /\ results' = Append(results, Contribution(tasks[Last(order')]))
          /\ WorkerStep =>
                /\ UNCHANGED <<results, order, delays, fileVars, headers, rows, pc>>
                /\ Cardinality({ i \in 1..Len(tasks) : tasks'[i] # tasks[i] }) = 1]_vars

\* the pool was full with a task left in the queue; one task ended, having
\* used its session, and the queued task took the worker it freed
C16_Witness ==
    /\ stage = "enrich"
    /\ Len(tasks) = MAX_WORKERS + 1
    /\ Cardinality(Running) = MAX_WORKERS
    /\ Cardinality(Finished) = 1
    /\ sessionUses = {1}
    /\ results = <<>>

\* the run is over: every task ended, every future was collected and the
\* results went to a sink
RunFinished ==
    /\ pc = "done"
    /\ AllCollected
    /\ Finished = 1..Len(rows)
    /\ Len(results) = Len(rows)
    /\ runs # <<>>

\* C17: an enrichment run never stops before it has finished: as long as
\* a task is not ended, a future not collected or the results not written,
\* some thread has a step to take, so that under fair scheduling every
\* task ends, every result is collected and the write step is reached.
C17_RunFinishes ==
    stage = "enrich" => (RunFinished \/ ENABLED Next)

NoBlankLine == \A k \in 2..Len(inputFile) : inputFile[k] # <<>>

\* C17 holds of every input file without a blank line: the run cannot
\* stop early, and under fair scheduling it does finish
C17_HoldsWithoutBlankRow ==
    NoBlankLine => C17_RunFinishes

C17_FinishesWithoutBlankRow ==
    (stage = "enrich" /\ NoBlankLine) ~> RunFinished

\* with or without blank lines the pool never stops with a task that has
\* not ended, and under fair scheduling every submitted task ends
C17_NoPoolDeadlock ==
    (stage = "enrich" /\ (Queued # {} \/ Running # {})) => ENABLED Next

C17_EveryTaskEnds ==
    \A i \in FutureIds :
        (stage = "enrich" /\ i <= Len(tasks)) ~> (i <= Len(tasks) /\ i \in Finished)

FiveXX == ForceList \cup {"501"}

\* C18: every attempt of make_request has a retry budget of its own, so an
\* attempt sends at most 1 + 3 HTTP requests and a call with max_retries = n
\* at most n * (1 + 3); when every request met a 5xx status the call used
\* all its n attempts, each ended in a RequestException, and it returned
\* None; when every status was one the adapter retries, it sent exactly
\* n * (1 + 3) requests.
C18_RetryLayers ==
    stage = "retry" =>
        /\ req.retries <= RetryTotal
        /\ req.http <= req.sent * (1 + RetryTotal) + req.retries
        /\ req.http <= req.max_retries * (1 + RetryTotal)
        /\ (req.st # "running" /\ httpSeen \subseteq FiveXX) =>
              /\ req.st = "returned" /\ req.response = NoResponse
              /\ req.sent = req.max_retries
              /\ AllRequestExceptions(fetchLog)
        /\ (req.st # "running" /\ httpSeen \subseteq ForceList) =>
              req.http = req.max_retries * (1 + RetryTotal)

\* the default five attempts against an endpoint that always answers 500:
\* twenty requests, then None
C18_Witness ==
    /\ stage = "retry"
    /\ req.max_retries = DefaultMaxRetries
    /\ httpSeen = {"500"}
    /\ req.http = 20
    /\ req.st = "returned" /\ req.response = NoResponse

====
